---- MODULE Spec2Model ----
(***************************************************************************)
(* Kalix regression harness: regression_tests/verify_all_models.py (the    *)
(* base variant) and regression_tests/simulations/verify_all_models.py     *)
(* (the logging variant).  main() discovers the *.ini model files below a  *)
(* root directory, runs the engine on each one through verify_model(),     *)
(* collects the outcomes and prints a summary; the logging variant also    *)
(* deletes its log file first and writes the whole transcript at the end.  *)
(*                                                                         *)
(* Text (paths, captured output, messages, console lines) is a sequence of *)
(* one-character strings, so that formatting, substring search, suffix     *)
(* tests and the lexicographic sort are computed as Python computes them.  *)
(* The two non-ASCII glyphs of the program are the elements "U+2713" (the  *)
(* check mark) and "U+2717" (the ballot cross).                            *)
(***************************************************************************)
EXTENDS Integers, Sequences, FiniteSets, TLC

VARIABLES
    variant,       \* "base" or "logging": which of the two scripts runs
    argv,          \* sys.argv
    root_dir,      \* main.root_dir
    files,         \* the files below root_dir (the tree os.walk sees)
    logFile,       \* the log file: [exists |-> BOOLEAN, content |-> text]
    pc,            \* main()'s position
    model_files,   \* main.model_files
    idx,           \* position of the for loop in model_files (1-based)
    rel_path,      \* main.rel_path
    results,       \* main.results
    ret,           \* the (success, message) verify_model is returning
    child,         \* the engine subprocess of the current call
    invoked,       \* per model: how many times subprocess.run was called
    runs,          \* per model: what the environment did (history)
    console,       \* the lines print() has emitted
    output_lines,  \* main.output_lines (logging variant)
    passed,        \* main.passed
    failed,        \* main.failed
    exitStatus     \* the process exit status, -1 while running

vars == <<variant, argv, root_dir, files, logFile, pc, model_files, idx,
          rel_path, results, ret, child, invoked, runs, console, output_lines,
          passed, failed, exitStatus>>

\* The largest number of files in the searched tree.
MaxFiles == 4

----------------------------------------------------------------------------
(* Literals of the program *)

\* 'VERIFIED!'
SENTINEL ==
    <<"V", "E", "R", "I", "F", "I", "E", "D", "!">>

\* 'VERIFIED!'
VerifiedMsg ==
    <<"V", "E", "R", "I", "F", "I", "E", "D", "!">>

\* 'mbal_for_verification.txt'
MbalBase ==
    <<"m", "b", "a", "l", "_", "f", "o", "r", "_", "v", "e", "r", "i", "f",
      "i", "c", "a", "t", "i", "o", "n", ".", "t", "x", "t">>

\* 'mbal.txt'
MbalLogging ==
    <<"m", "b", "a", "l", ".", "t", "x", "t">>

\* 'kalixcli'
EngineBase ==
    <<"k", "a", "l", "i", "x", "c", "l", "i">>

\* 'sim'
SubcmdBase ==
    <<"s", "i", "m">>

\* 'kalix'
EngineLogging ==
    <<"k", "a", "l", "i", "x">>

\* 'simulate'
SubcmdLogging ==
    <<"s", "i", "m", "u", "l", "a", "t", "e">>

\* '-v'
VerifyFlag ==
    <<"-", "v">>

\* '.ini'
Ext ==
    <<".", "i", "n", "i">>

\* 'Mass balance file not found: '
NotFoundPrefix ==
    <<"M", "a", "s", "s", " ", "b", "a", "l", "a", "n", "c", "e", " ", "f",
      "i", "l", "e", " ", "n", "o", "t", " ", "f", "o", "u", "n", "d", ":",
      " ">>

\* 'Verification unclear: '
UnclearPrefix ==
    <<"V", "e", "r", "i", "f", "i", "c", "a", "t", "i", "o", "n", " ", "u",
      "n", "c", "l", "e", "a", "r", ":", " ">>

\* 'Failed: '
FailedPrefix ==
    <<"F", "a", "i", "l", "e", "d", ":", " ">>

\* 'Timeout: Model took too long to run'
TimeoutMsg ==
    <<"T", "i", "m", "e", "o", "u", "t", ":", " ", "M", "o", "d", "e", "l",
      " ", "t", "o", "o", "k", " ", "t", "o", "o", " ", "l", "o", "n", "g",
      " ", "t", "o", " ", "r", "u", "n">>

\* 'Error: '
ErrorPrefix ==
    <<"E", "r", "r", "o", "r", ":", " ">>

\* 'Searching for model files in: '
SearchingPrefix ==
    <<"S", "e", "a", "r", "c", "h", "i", "n", "g", " ", "f", "o", "r", " ",
      "m", "o", "d", "e", "l", " ", "f", "i", "l", "e", "s", " ", "i", "n",
      ":", " ">>

\* 'No .ini files found!'
NoIniMsg ==
    <<"N", "o", " ", ".", "i", "n", "i", " ", "f", "i", "l", "e", "s", " ",
      "f", "o", "u", "n", "d", "!">>

\* 'Found '
FoundPrefix ==
    <<"F", "o", "u", "n", "d", " ">>

\* ' model file(s)\n'
FoundSuffix ==
    <<" ", "m", "o", "d", "e", "l", " ", "f", "i", "l", "e", "(", "s", ")",
      "\n">>

\* 'Verifying: '
VerifyingPrefix ==
    <<"V", "e", "r", "i", "f", "y", "i", "n", "g", ":", " ">>

\* '  ✓ '
OkPrefix ==
    <<" ", " ", "U+2713", " ">>

\* '  ✗ '
BadPrefix ==
    <<" ", " ", "U+2717", " ">>

\* 'SUMMARY'
SummaryTitle ==
    <<"S", "U", "M", "M", "A", "R", "Y">>

\* 'Timestamp: '
TimestampPrefix ==
    <<"T", "i", "m", "e", "s", "t", "a", "m", "p", ":", " ">>

\* 'Total: '
TotalPrefix ==
    <<"T", "o", "t", "a", "l", ":", " ">>

\* 'Passed: '
PassedPrefix ==
    <<"P", "a", "s", "s", "e", "d", ":", " ">>

\* 'Failed: '
FailedCountPrefix ==
    <<"F", "a", "i", "l", "e", "d", ":", " ">>

\* '\nFailed models:'
FailedModelsTitle ==
    <<"\n", "F", "a", "i", "l", "e", "d", " ", "m", "o", "d", "e", "l", "s",
      ":">>

\* '  - '
ItemPrefix ==
    <<" ", " ", "-", " ">>

\* '    '
ItemMsgPrefix ==
    <<" ", " ", " ", " ">>

\* '\n✓ All models verified successfully!'
AllVerifiedMsg ==
    <<"\n", "U+2713", " ", "A", "l", "l", " ", "m", "o", "d", "e", "l", "s",
      " ", "v", "e", "r", "i", "f", "i", "e", "d", " ", "s", "u", "c", "c",
      "e", "s", "s", "f", "u", "l", "l", "y", "!">>

\* 'verify_all_models_log.txt'
LogName ==
    <<"v", "e", "r", "i", "f", "y", "_", "a", "l", "l", "_", "m", "o", "d",
      "e", "l", "s", "_", "l", "o", "g", ".", "t", "x", "t">>

\* '0123456789'
Digits ==
    <<"0", "1", "2", "3", "4", "5", "6", "7", "8", "9">>

\* 'abcdefghijklmnopqrstuvwxyz'
Lower ==
    <<"a", "b", "c", "d", "e", "f", "g", "h", "i", "j", "k", "l", "m", "n",
      "o", "p", "q", "r", "s", "t", "u", "v", "w", "x", "y", "z">>

----------------------------------------------------------------------------
(* The environment: the inputs the runs are checked on *)

\* '/t/verify_all_models.py'
ScriptFile ==
    <<"/", "t", "/", "v", "e", "r", "i", "f", "y", "_", "a", "l", "l", "_",
      "m", "o", "d", "e", "l", "s", ".", "p", "y">>

\* '/w'
Cwd ==
    <<"/", "w">>

\* 'r'
ArgDir ==
    <<"r">>

\* 'a.ini'
RootModel ==
    <<"a", ".", "i", "n", "i">>

\* 'a/m.ini'
ModelM ==
    <<"a", "/", "m", ".", "i", "n", "i">>

\* 'b/m.ini'
ModelB ==
    <<"b", "/", "m", ".", "i", "n", "i">>

\* 'a/mini'
Decoy ==
    <<"a", "/", "m", "i", "n", "i">>

\* 'a'
DirA ==
    <<"a">>

\* 'b'
DirB ==
    <<"b">>

\* '[Errno 2] No such file or directory'
ENOENT ==
    <<"[", "E", "r", "r", "n", "o", " ", "2", "]", " ", "N", "o", " ", "s",
      "u", "c", "h", " ", "f", "i", "l", "e", " ", "o", "r", " ", "d", "i",
      "r", "e", "c", "t", "o", "r", "y">>

\* '[Errno 13] Permission denied'
EACCES ==
    <<"[", "E", "r", "r", "n", "o", " ", "1", "3", "]", " ", "P", "e", "r",
      "m", "i", "s", "s", "i", "o", "n", " ", "d", "e", "n", "i", "e", "d">>

\* 'invalid start byte'
EDECODE ==
    <<"i", "n", "v", "a", "l", "i", "d", " ", "s", "t", "a", "r", "t", " ",
      "b", "y", "t", "e">>

\* 'VERIFIED'
Truncated ==
    <<"V", "E", "R", "I", "F", "I", "E", "D">>

\* 'ok'
Noise ==
    <<"o", "k">>

\* the text of an engine whose standard error reads like the harness's own
\* timeout message
EngineErr == TimeoutMsg

\* '2025-01-01T00:00:00'
StampA ==
    <<"2", "0", "2", "5", "-", "0", "1", "-", "0", "1", "T", "0", "0", ":",
      "0", "0", ":", "0", "0">>

\* '2025-06-30T23:59:59.5'
StampB ==
    <<"2", "0", "2", "5", "-", "0", "6", "-", "3", "0", "T", "2", "3", ":",
      "5", "9", ":", "5", "9", ".", "5">>

\* 'stale\n'
StaleLog ==
    <<"s", "t", "a", "l", "e", "\n">>

----------------------------------------------------------------------------
(* Text: Python's str operations on sequences of characters *)

\* c * n
Rep(c, n) == [i \in 1..n |-> c]

\* s.startswith(p)
StartsWith(s, p) == Len(s) >= Len(p) /\ SubSeq(s, 1, Len(p)) = p

\* s.endswith(suf)
EndsWith(s, suf) ==
    Len(s) >= Len(suf) /\ SubSeq(s, Len(s) - Len(suf) + 1, Len(s)) = suf

\* t in s
Contains(s, t) ==
    \E i \in 0..Len(s) :
        i + Len(t) <= Len(s) /\ SubSeq(s, i + 1, i + Len(t)) = t

\* str(n) for n >= 0, as an f-string formats an int
RECURSIVE Str(_)
Str(n) ==
    IF n < 10 THEN <<Digits[n + 1]>>
    ELSE Str(n \div 10) \o <<Digits[(n % 10) + 1]>>

\* ord(c) of the characters that occur in paths
CodePoint(c) ==
    IF c = "." THEN 46
    ELSE IF c = "/" THEN 47
    ELSE IF c = "_" THEN 95
    ELSE 96 + (CHOOSE i \in 1..Len(Lower) : Lower[i] = c)

\* a < b on str: the first differing character decides, a proper prefix is
\* smaller
RECURSIVE LexLess(_, _)
LexLess(a, b) ==
    IF b = <<>> THEN FALSE
    ELSE IF a = <<>> THEN TRUE
    ELSE IF a[1] = b[1] THEN LexLess(Tail(a), Tail(b))
    ELSE CodePoint(a[1]) < CodePoint(b[1])

RECURSIVE Insert(_, _)
Insert(x, s) ==
    IF s = <<>> THEN <<x>>
    ELSE IF LexLess(s[1], x) THEN <<s[1]>> \o Insert(x, Tail(s))
    ELSE <<x>> \o s

\* sorted(s) on a list of str
RECURSIVE sorted(_)
sorted(s) == IF s = <<>> THEN <<>> ELSE Insert(s[1], sorted(Tail(s)))

\* '\n'.join(lines)
RECURSIVE JoinLines(_)
JoinLines(lines) ==
    IF lines = <<>> THEN <<>>
    ELSE IF Len(lines) = 1 THEN lines[1]
    ELSE lines[1] \o <<"\n">> \o JoinLines(Tail(lines))

----------------------------------------------------------------------------
(* Paths: os.path on POSIX *)

\* s.rfind(c) + 1
RFind(s, c) ==
    LET I == {i \in 1..Len(s) : s[i] = c}
    IN  IF I = {} THEN 0 ELSE CHOOSE i \in I : \A j \in I : j <= i

RECURSIVE RStrip(_, _)
RStrip(s, c) ==
    IF s # <<>> /\ s[Len(s)] = c THEN RStrip(SubSeq(s, 1, Len(s) - 1), c)
    ELSE s

\* os.path.dirname(p)
dirname(p) ==
    LET head == SubSeq(p, 1, RFind(p, "/"))
    IN  IF head # <<>> /\ head # Rep("/", Len(head)) THEN RStrip(head, "/")
        ELSE head

\* os.path.basename(p)
basename(p) == SubSeq(p, RFind(p, "/") + 1, Len(p))

\* os.path.join(a, b)
join(a, b) ==
    IF StartsWith(b, <<"/">>) THEN b
    ELSE IF a = <<>> \/ EndsWith(a, <<"/">>) THEN a \o b
    ELSE a \o <<"/">> \o b

\* os.path.abspath(p), on paths that are already normal
abspath(p) == IF StartsWith(p, <<"/">>) THEN p ELSE join(Cwd, p)

\* [x for x in p.split('/') if x]: the maximal runs of characters other
\* than "/", in order
Split(p) ==
    LET starts == {i \in 1..Len(p) :
                     p[i] # "/" /\ (i = 1 \/ p[i - 1] = "/")}
        start(k) == CHOOSE i \in starts :
                        Cardinality({j \in starts : j < i}) = k - 1
        stop(i)  == CHOOSE e \in i..Len(p) :
                        /\ \A j \in i..e : p[j] # "/"
                        /\ (e = Len(p) \/ p[e + 1] = "/")
    IN  [k \in 1..Cardinality(starts) |->
            SubSeq(p, start(k), stop(start(k)))]

\* len(os.path.commonprefix([a, b])) on lists of components
RECURSIVE CommonLen(_, _)
CommonLen(a, b) ==
    IF a = <<>> \/ b = <<>> \/ a[1] # b[1] THEN 0
    ELSE 1 + CommonLen(Tail(a), Tail(b))

\* os.path.join(*parts)
RECURSIVE JoinAll(_)
JoinAll(parts) ==
    IF Len(parts) = 1 THEN parts[1]
    ELSE join(parts[1], JoinAll(Tail(parts)))

\* os.path.relpath(path, start); start_list and path_list are each computed
\* once
relpath(path, start) ==
    LET rel(start_list, path_list) ==
            LET i        == CommonLen(start_list, path_list)
                rel_list == [k \in 1..(Len(start_list) - i) |-> <<".", ".">>]
                            \o SubSeq(path_list, i + 1, Len(path_list))
            IN  IF rel_list = <<>> THEN <<".">> ELSE JoinAll(rel_list)
    IN  CHOOSE r \in {rel(start_list, path_list) :
                        start_list \in {Split(abspath(start))},
                        path_list \in {Split(abspath(path))}} : TRUE

----------------------------------------------------------------------------
(* The environment's choices *)

\* the relative paths a tree may hold: three model files, a file whose name
\* ends in "ini" without the dot, and the reference file of each directory
Universe(root, mbal) ==
    {join(root, f) : f \in {RootModel, ModelM, ModelB, Decoy}}
    \cup {join(d, mbal) : d \in {root, join(root, DirA), join(root, DirB)}}

\* what the engine may write to its standard output
Stdouts ==
    {<<>>, SENTINEL, Noise \o <<"\n">> \o SENTINEL \o <<"\n">>, Truncated}

\* what the engine may write to its standard error
Stderrs == {<<>>, EngineErr}

\* the exit statuses of the engine
ReturnCodes == {0, 1}

\* str(e) of the exceptions Popen() may raise
SpawnFaults == {ENOENT, EACCES}

\* str(e) of the exceptions communicate() may raise
CommFaults == {EDECODE}

\* datetime.now().isoformat()
Timestamps == {StampA, StampB}

\* all orders in which a set can be enumerated
Orders(S) ==
    {s \in [1..Cardinality(S) -> S] :
        \A i, j \in 1..Cardinality(S) : i # j => s[i] # s[j]}

NoFile == [exists |-> FALSE, content |-> <<>>]

\* what an engine that has been started does
Fates == {"returns", "hangs", "faults"}

NoChild == [state |-> "none", cmd |-> <<>>, cwd |-> <<>>, fate |-> "none"]

----------------------------------------------------------------------------
(* find_model_files *)

\* os.walk(root_dir): the (root, file) pairs of the tree, in the order the
\* file system enumerates them
WalkOrders ==
    Orders({[root |-> dirname(p), file |-> basename(p)] : p \in files})

RECURSIVE ini_files(_)
ini_files(walk) ==
    IF walk = <<>> THEN <<>>
    ELSE (IF EndsWith(walk[1].file, Ext)
          THEN <<join(walk[1].root, walk[1].file)>> ELSE <<>>)
         \o ini_files(Tail(walk))

\* find_model_files without the sort: the files in the order of the walk
find_model_files_unsorted(walk) == ini_files(walk)

\* return sorted(model_files)
find_model_files(walk) == sorted(ini_files(walk))

----------------------------------------------------------------------------
(* verify_model *)

mbal_filename == IF variant = "base" THEN MbalBase ELSE MbalLogging

\* mbal_path joined to the model file instead of its directory
mbal_path_of_file(model_path) == join(model_path, mbal_filename)

mbal_path(model_path) == join(dirname(model_path), mbal_filename)

\* os.path.exists(p), for p below root_dir
exists(p) == p \in files

\* the argument list of subprocess.run
command(model_path) ==
    IF variant = "base"
    THEN <<EngineBase, SubcmdBase, basename(model_path), VerifyFlag,
           mbal_filename>>
    ELSE <<EngineLogging, SubcmdLogging, basename(model_path), VerifyFlag,
           mbal_filename>>

\* the return of the existence check
MissingOutcome(model_path) ==
    <<FALSE, NotFoundPrefix \o mbal_path(model_path)>>

\* Classify without the sentinel test: exit status 0 alone is a success
ClassifyExitOnly(result) ==
    IF result.returncode = 0 THEN <<TRUE, VerifiedMsg>>
    ELSE LET error_msg == IF result.stderr # <<>> THEN result.stderr
                          ELSE result.stdout
         IN  <<FALSE, FailedPrefix \o error_msg>>

\* Classify returning the captured output as the success message
ClassifyEchoStdout(result) ==
    IF result.returncode = 0
    THEN IF Contains(result.stdout, SENTINEL)
         THEN <<TRUE, result.stdout>>
         ELSE <<FALSE, UnclearPrefix \o result.stdout>>
    ELSE LET error_msg == IF result.stderr # <<>> THEN result.stderr
                          ELSE result.stdout
         IN  <<FALSE, FailedPrefix \o error_msg>>

\* Classify preferring the standard output as the diagnostic
ClassifyStdoutFirst(result) ==
    IF result.returncode = 0
    THEN IF Contains(result.stdout, SENTINEL)
         THEN <<TRUE, VerifiedMsg>>
         ELSE <<FALSE, UnclearPrefix \o result.stdout>>
    ELSE LET error_msg == IF result.stdout # <<>> THEN result.stdout
                          ELSE result.stderr
         IN  <<FALSE, FailedPrefix \o error_msg>>

\* Classify taking exit status 0 for a success in the logging variant
ClassifyByVariant(result) ==
    IF result.returncode = 0
    THEN IF variant = "logging" \/ Contains(result.stdout, SENTINEL)
         THEN <<TRUE, VerifiedMsg>>
         ELSE <<FALSE, UnclearPrefix \o result.stdout>>
    ELSE LET error_msg == IF result.stderr # <<>> THEN result.stderr
                          ELSE result.stdout
         IN  <<FALSE, FailedPrefix \o error_msg>>

\* Classify giving the bare diagnostic, without 'Failed: ' before it
ClassifyBareError(result) ==
    IF result.returncode = 0
    THEN IF Contains(result.stdout, SENTINEL)
         THEN <<TRUE, VerifiedMsg>>
         ELSE <<FALSE, UnclearPrefix \o result.stdout>>
    ELSE LET error_msg == IF result.stderr # <<>> THEN result.stderr
                          ELSE result.stdout
         IN  <<FALSE, error_msg>>

\* the classification of a completed run
Classify(result) ==
    IF result.returncode = 0
    THEN IF Contains(result.stdout, SENTINEL)
         THEN <<TRUE, VerifiedMsg>>
         ELSE <<FALSE, UnclearPrefix \o result.stdout>>
    ELSE LET error_msg == IF result.stderr # <<>> THEN result.stderr
                          ELSE result.stdout
         IN  <<FALSE, FailedPrefix \o error_msg>>

\* except subprocess.TimeoutExpired
TimeoutOutcome == <<FALSE, TimeoutMsg>>

\* except Exception as e
FaultOutcome(e) == <<FALSE, ErrorPrefix \o e>>

----------------------------------------------------------------------------
(* main *)

script_dir == dirname(abspath(argv[1]))

\* the root directory main chooses from the command line
argv_root == IF Len(argv) > 1 THEN argv[2] ELSE script_dir

\* log leaving the empty lines out of output_lines
logSkipsBlank(lines) ==
    /\ console' = console \o lines
    /\ output_lines' = IF variant = "logging"
                       THEN output_lines \o SelectSeq(lines,
                                                      LAMBDA m : m # <<>>)
                       ELSE output_lines

\* print(m) for each m of lines; the logging variant's log(m) also appends m
\* to output_lines
log(lines) ==
    /\ console' = console \o lines
    /\ output_lines' = IF variant = "logging" THEN output_lines \o lines
                       ELSE output_lines

\* sum(1 for _, success, _ in results if success)
RECURSIVE CountPassed(_)
CountPassed(rs) ==
    IF rs = <<>> THEN 0
    ELSE (IF rs[1][2] THEN 1 ELSE 0) + CountPassed(Tail(rs))

\* FailedLines without the test of the success flag: every result is listed
RECURSIVE FailedLinesAll(_)
FailedLinesAll(rs) ==
    IF rs = <<>> THEN <<>>
    ELSE <<ItemPrefix \o rs[1][1], ItemMsgPrefix \o rs[1][3]>>
         \o FailedLinesAll(Tail(rs))

\* the two lines printed for each failed result, in the order of results
RECURSIVE FailedLines(_)
FailedLines(rs) ==
    IF rs = <<>> THEN <<>>
    ELSE (IF ~rs[1][2]
          THEN <<ItemPrefix \o rs[1][1], ItemMsgPrefix \o rs[1][3]>>
          ELSE <<>>)
         \o FailedLines(Tail(rs))

\* the lines of the summary block
SummaryLines(rs, p, f, stamp) ==
    <<Rep("=", 80), SummaryTitle, Rep("=", 80)>>
    \o (IF variant = "logging" THEN <<TimestampPrefix \o stamp>> ELSE <<>>)
    \o <<TotalPrefix \o Str(Len(rs)), PassedPrefix \o Str(p),
         FailedCountPrefix \o Str(f)>>
    \o (IF f > 0 THEN <<FailedModelsTitle>> \o FailedLines(rs)
        ELSE <<AllVerifiedMsg>>)

\* ExitCode ignoring the failures
ExitCodeZero(f) == 0

\* sys.exit(1 if failed > 0 else 0)
ExitCode(f) == IF f > 0 THEN 1 ELSE 0

\* the path of the log file
log_file == join(script_dir, LogName)

\* '\n'.join(output_lines) + '\n'
LogContent(lines) == JoinLines(lines) \o <<"\n">>

Init ==
    /\ variant \in {"base", "logging"}
    /\ argv \in {<<ScriptFile>>, <<ScriptFile, ArgDir>>}
    /\ root_dir = <<>>
    /\ files \in {fs \in SUBSET Universe(argv_root, mbal_filename) :
                    Cardinality(fs) <= MaxFiles}
    /\ logFile \in (IF variant = "logging"
                    THEN {NoFile, [exists |-> TRUE, content |-> StaleLog]}
                    ELSE {NoFile})
    /\ pc = "start"
    /\ model_files = <<>>
    /\ idx = 1
    /\ rel_path = <<>>
    /\ results = <<>>
    /\ ret = <<FALSE, <<>>>>
    /\ child = NoChild
    /\ invoked = <<>>
    /\ runs = <<>>
    /\ console = <<>>
    /\ output_lines = <<>>
    /\ passed = 0
    /\ failed = 0
    /\ exitStatus = -1

\* the log file is removed, the two heading lines are printed
Start ==
    /\ pc = "start"
    /\ logFile' = IF variant = "logging" THEN NoFile ELSE logFile
    /\ root_dir' = argv_root
    /\ log(<<SearchingPrefix \o root_dir', Rep("=", 80)>>)
    /\ pc' = "discover"
    /\ UNCHANGED <<variant, argv, files, model_files, idx, rel_path, results,
                   ret, child, invoked, runs, passed, failed, exitStatus>>

\* Discover without the exit on an empty list
DiscoverNoExit ==
    /\ pc = "discover"
    /\ \E walk \in WalkOrders :
         /\ model_files' = find_model_files(walk)
         /\ invoked' = [i \in 1..Len(model_files') |-> 0]
         /\ log(<<FoundPrefix \o Str(Len(model_files')) \o FoundSuffix>>)
         /\ pc' = "loop"
    /\ UNCHANGED <<variant, argv, root_dir, files, logFile, idx, rel_path,
                   results, ret, child, runs, passed, failed, exitStatus>>

\* Discover writing the log file before the exit on an empty list
DiscoverSavesLog ==
    /\ pc = "discover"
    /\ \E walk \in WalkOrders :
         /\ model_files' = find_model_files(walk)
         /\ invoked' = [i \in 1..Len(model_files') |-> 0]
         /\ IF model_files' = <<>>
            THEN /\ log(<<NoIniMsg>>)
                 /\ logFile' = IF variant = "logging"
                               THEN [exists |-> TRUE,
                                     content |-> LogContent(output_lines')]
                               ELSE logFile
                 /\ exitStatus' = 1
                 /\ pc' = "done"
            ELSE /\ log(<<FoundPrefix \o Str(Len(model_files'))
                          \o FoundSuffix>>)
                 /\ UNCHANGED <<logFile, exitStatus>>
                 /\ pc' = "loop"
    /\ UNCHANGED <<variant, argv, root_dir, files, idx, rel_path,
                   results, ret, child, runs, passed, failed>>

\* model_files = find_model_files(root_dir), and the exit when it is empty
Discover ==
    /\ pc = "discover"
    /\ \E walk \in WalkOrders :
         /\ model_files' = find_model_files(walk)
         /\ invoked' = [i \in 1..Len(model_files') |-> 0]
         /\ IF model_files' = <<>>
            THEN /\ log(<<NoIniMsg>>)
                 /\ exitStatus' = 1
                 /\ pc' = "done"
            ELSE /\ log(<<FoundPrefix \o Str(Len(model_files'))
                          \o FoundSuffix>>)
                 /\ exitStatus' = exitStatus
                 /\ pc' = "loop"
    /\ UNCHANGED <<variant, argv, root_dir, files, logFile, idx, rel_path,
                   results, ret, child, runs, passed, failed>>

\* the head of a loop iteration and verify_model up to the existence check
BeginVerify ==
    /\ pc = "loop"
    /\ idx <= Len(model_files)
    /\ rel_path' = relpath(model_files[idx], root_dir)
    /\ log(<<VerifyingPrefix \o rel_path'>>)
    /\ child' = NoChild
    /\ IF ~exists(mbal_path(model_files[idx]))
       THEN /\ ret' = MissingOutcome(model_files[idx])
            /\ runs' = Append(runs, [kind |-> "none",
                                     returncode |-> 0, stdout |-> <<>>,
                                     stderr |-> <<>>, fault |-> <<>>])
            /\ pc' = "record"
       ELSE /\ UNCHANGED <<ret, runs>>
            /\ pc' = "spawn"
    /\ UNCHANGED <<variant, argv, root_dir, files, logFile, model_files, idx,
                   results, invoked, passed, failed, exitStatus>>

\* subprocess.run starts the engine; what becomes of the engine is the
\* environment's choice: it returns within the timeout, it does not (it hangs
\* or runs for too long), or reading its output fails
Spawn ==
    /\ pc = "spawn"
    /\ invoked' = [invoked EXCEPT ![idx] = @ + 1]
    /\ \E f \in Fates :
         child' = [state |-> "running", cmd |-> command(model_files[idx]),
                   cwd |-> dirname(model_files[idx]), fate |-> f]
    /\ pc' = "wait"
    /\ UNCHANGED <<variant, argv, root_dir, files, logFile, model_files, idx,
                   rel_path, results, ret, runs, console, output_lines,
                   passed, failed, exitStatus>>

\* SpawnFault without the except clause: the exception leaves main
SpawnFaultUncaught ==
    /\ pc = "spawn"
    /\ invoked' = [invoked EXCEPT ![idx] = @ + 1]
    /\ \E e \in SpawnFaults :
         runs' = Append(runs, [kind |-> "spawnfault",
                               returncode |-> 0, stdout |-> <<>>,
                               stderr |-> <<>>, fault |-> e])
    /\ exitStatus' = 1
    /\ pc' = "done"
    /\ UNCHANGED <<variant, argv, root_dir, files, logFile, model_files, idx,
                   rel_path, results, ret, child, console, output_lines,
                   passed, failed>>

\* subprocess.run raises before a child exists
SpawnFault ==
    /\ pc = "spawn"
    /\ invoked' = [invoked EXCEPT ![idx] = @ + 1]
    /\ \E e \in SpawnFaults :
         /\ ret' = FaultOutcome(e)
         /\ runs' = Append(runs, [kind |-> "spawnfault",
                                  returncode |-> 0, stdout |-> <<>>,
                                  stderr |-> <<>>, fault |-> e])
    /\ pc' = "record"
    /\ UNCHANGED <<variant, argv, root_dir, files, logFile, model_files, idx,
                   rel_path, results, child, console, output_lines, passed,
                   failed, exitStatus>>

\* the engine exits within the timeout and its result is classified
Completes ==
    /\ pc = "wait"
    /\ child.state = "running"
    /\ child.fate = "returns"
    /\ \E rc \in ReturnCodes, out \in Stdouts, err \in Stderrs :
         LET result == [returncode |-> rc, stdout |-> out, stderr |-> err]
         IN  /\ ret' = Classify(result)
             /\ runs' = Append(runs, [kind |-> "exit",
                                      returncode |-> rc, stdout |-> out,
                                      stderr |-> err, fault |-> <<>>])
    /\ child' = [child EXCEPT !.state = "exited"]
    /\ pc' = "record"
    /\ UNCHANGED <<variant, argv, root_dir, files, logFile, model_files, idx,
                   rel_path, results, invoked, console, output_lines, passed,
                   failed, exitStatus>>

\* Timeout without the kill: the child is left running
TimeoutLeak ==
    /\ pc = "wait"
    /\ child.state = "running"
    /\ child.fate = "hangs"
    /\ ret' = TimeoutOutcome
    /\ runs' = Append(runs, [kind |-> "timeout",
                             returncode |-> 0, stdout |-> <<>>,
                             stderr |-> <<>>, fault |-> <<>>])
    /\ pc' = "record"
    /\ UNCHANGED <<variant, argv, root_dir, files, logFile, model_files, idx,
                   rel_path, results, child, invoked, console, output_lines,
                   passed, failed, exitStatus>>

\* subprocess.run without timeout=300: the wait for an engine that hangs
\* does not end
TimeoutNever ==
    /\ pc = "wait"
    /\ child.state = "running"
    /\ child.fate = "hangs"
    /\ UNCHANGED vars

\* the 300 s pass: subprocess.run kills the child, waits for it and raises
\* TimeoutExpired
Timeout ==
    /\ pc = "wait"
    /\ child.state = "running"
    /\ child.fate = "hangs"
    /\ child' = [child EXCEPT !.state = "killed"]
    /\ ret' = TimeoutOutcome
    /\ runs' = Append(runs, [kind |-> "timeout",
                             returncode |-> 0, stdout |-> <<>>,
                             stderr |-> <<>>, fault |-> <<>>])
    /\ pc' = "record"
    /\ UNCHANGED <<variant, argv, root_dir, files, logFile, model_files, idx,
                   rel_path, results, invoked, console, output_lines, passed,
                   failed, exitStatus>>

\* communicate() raises: subprocess.run kills the child and re-raises
CommFault ==
    /\ pc = "wait"
    /\ child.state = "running"
    /\ child.fate = "faults"
    /\ child' = [child EXCEPT !.state = "killed"]
    /\ \E e \in CommFaults :
         /\ ret' = FaultOutcome(e)
         /\ runs' = Append(runs, [kind |-> "commfault",
                                  returncode |-> 0, stdout |-> <<>>,
                                  stderr |-> <<>>, fault |-> e])
    /\ pc' = "record"
    /\ UNCHANGED <<variant, argv, root_dir, files, logFile, model_files, idx,
                   rel_path, results, invoked, console, output_lines, passed,
                   failed, exitStatus>>

\* Record leaving a failed outcome out of results
RecordDropsFailed ==
    /\ pc = "record"
    /\ results' = IF ret[1]
                  THEN Append(results, <<rel_path,
                                         ret[1], ret[2]>>)
                  ELSE results
    /\ log(<<(IF ret[1] THEN OkPrefix ELSE BadPrefix) \o ret[2], <<>>>>)
    /\ idx' = idx + 1
    /\ pc' = "loop"
    /\ UNCHANGED <<variant, argv, root_dir, files, logFile, model_files,
                   rel_path, ret, child, invoked, runs, passed, failed,
                   exitStatus>>

\* Record leaving the loop at the first failed outcome
RecordBreaks ==
    /\ pc = "record"
    /\ results' = Append(results, <<rel_path,
                                    ret[1], ret[2]>>)
    /\ log(<<(IF ret[1] THEN OkPrefix ELSE BadPrefix) \o ret[2], <<>>>>)
    /\ idx' = IF ret[1] THEN idx + 1 ELSE Len(model_files) + 1
    /\ pc' = "loop"
    /\ UNCHANGED <<variant, argv, root_dir, files, logFile, model_files,
                   rel_path, ret, child, invoked, runs, passed, failed,
                   exitStatus>>

\* Record running the engine a second time after a failed first run
RecordRetries ==
    /\ pc = "record"
    /\ IF ~ret[1] /\ invoked[idx] = 1
       THEN /\ pc' = "spawn"
            /\ UNCHANGED <<results, console, output_lines, idx>>
       ELSE /\ results' = Append(results, <<rel_path, ret[1], ret[2]>>)
            /\ log(<<(IF ret[1] THEN OkPrefix ELSE BadPrefix) \o ret[2],
                     <<>>>>)
            /\ idx' = idx + 1
            /\ pc' = "loop"
    /\ UNCHANGED <<variant, argv, root_dir, files, logFile, model_files,
                   rel_path, ret, child, invoked, runs, passed, failed,
                   exitStatus>>

\* verify_model returns; main appends the outcome and prints it
Record ==
    /\ pc = "record"
    /\ results' = Append(results, <<rel_path,
                                    ret[1], ret[2]>>)
    /\ log(<<(IF ret[1] THEN OkPrefix ELSE BadPrefix) \o ret[2], <<>>>>)
    /\ idx' = idx + 1
    /\ pc' = "loop"
    /\ UNCHANGED <<variant, argv, root_dir, files, logFile, model_files,
                   rel_path, ret, child, invoked, runs, passed, failed,
                   exitStatus>>

\* the loop is over: the summary block
Summary ==
    /\ pc = "loop"
    /\ idx > Len(model_files)
    /\ passed' = CountPassed(results)
    /\ failed' = Len(results) - passed'
    /\ \E stamp \in Timestamps :
         log(SummaryLines(results, passed', failed', stamp))
    /\ pc' = IF variant = "logging" THEN "open_log" ELSE "exit"
    /\ UNCHANGED <<variant, argv, root_dir, files, logFile, model_files, idx,
                   rel_path, results, ret, child, invoked, runs, exitStatus>>

\* open(log_file, 'w') creates or truncates the file
OpenLog ==
    /\ pc = "open_log"
    /\ logFile' = [exists |-> TRUE, content |-> <<>>]
    /\ pc' = "write_log"
    /\ UNCHANGED <<variant, argv, root_dir, files, model_files, idx, rel_path,
                   results, ret, child, invoked, runs, console, output_lines,
                   passed, failed, exitStatus>>

\* f.write(...) and the close at the end of the with block
WriteLog ==
    /\ pc = "write_log"
    /\ logFile' = [exists |-> TRUE, content |-> LogContent(output_lines)]
    /\ pc' = "exit"
    /\ UNCHANGED <<variant, argv, root_dir, files, model_files, idx, rel_path,
                   results, ret, child, invoked, runs, console, output_lines,
                   passed, failed, exitStatus>>

\* sys.exit at the end of main
Exit ==
    /\ pc = "exit"
    /\ exitStatus' = ExitCode(failed)
    /\ pc' = "done"
    /\ UNCHANGED <<variant, argv, root_dir, files, logFile, model_files, idx,
                   rel_path, results, ret, child, invoked, runs, console,
                   output_lines, passed, failed>>

\* the harness is interrupted (a signal, a crash) and stops where it is
Interrupt ==
    /\ pc \notin {"done", "interrupted"}
    /\ pc' = "interrupted"
    /\ UNCHANGED <<variant, argv, root_dir, files, logFile, model_files, idx,
                   rel_path, results, ret, child, invoked, runs, console,
                   output_lines, passed, failed, exitStatus>>

\* the steps of an uninterrupted run
Run ==
    \/ Start
    \/ Discover
    \/ BeginVerify
    \/ Spawn
    \/ SpawnFault
    \/ Completes
    \/ Timeout
    \/ CommFault
    \/ Record
    \/ Summary
    \/ OpenLog
    \/ WriteLog
    \/ Exit

Next == Run \/ Interrupt

Spec == Init /\ [][Next]_vars

\* an uninterrupted run keeps taking steps: main is one sequential thread,
\* and the wait for the engine ends at its exit or at the timeout
LiveSpec == Init /\ [][Run]_vars /\ WF_vars(Run)

----------------------------------------------------------------------------
(* Properties *)

\* the model files of the tree
Discovered == {p \in files : EndsWith(basename(p), Ext)}

\* the reference artifact of the i-th model file is in the tree
RefExists(i) == join(dirname(model_files[i]), mbal_filename) \in files

\* the engine of the i-th model exited with status 0 and the sentinel
Affirmed(i) ==
    /\ runs[i].kind = "exit"
    /\ runs[i].returncode = 0
    /\ Contains(runs[i].stdout, SENTINEL)

\* C1: when main has exited, the exit status is 0 if at least one model file
\* was discovered and every recorded outcome is a success, and 1 otherwise
\* (a failed outcome, or no model file), in both variants.
C1_ExitStatus ==
    pc = "done" =>
        /\ exitStatus \in {0, 1}
        /\ exitStatus = 0 <=>
              /\ Discovered # {}
              /\ \A i \in 1..Len(results) : results[i][2]

C1_Witness ==
    /\ pc = "done"
    /\ exitStatus = 0
    /\ variant = "logging"
    /\ Len(results) = 2

\* C2: a recorded outcome is a success only when the reference artifact
\* exists and the engine exited within the timeout with status 0 and the
\* sentinel in its standard output; exit status 0 without the sentinel is a
\* failure whose message carries the captured standard output.
C2_NoFalsePositive ==
    \A i \in 1..Len(results) :
        /\ results[i][2] => RefExists(i) /\ Affirmed(i)
        /\ (/\ runs[i].kind = "exit"
            /\ runs[i].returncode = 0
            /\ ~Contains(runs[i].stdout, SENTINEL))
           => /\ ~results[i][2]
              /\ Contains(results[i][3], runs[i].stdout)

C2_Witness ==
    \E i \in 1..Len(results) :
        /\ runs[i].kind = "exit"
        /\ runs[i].returncode = 0
        /\ runs[i].stdout = Truncated
        /\ ~results[i][2]

\* C3: when the reference artifact exists and the engine exited within the
\* timeout with status 0 and the sentinel in its standard output, the
\* recorded outcome is a success whose message is exactly "VERIFIED!".
C3_VerifiedMessage ==
    \A i \in 1..Len(results) :
        (RefExists(i) /\ Affirmed(i))
        => /\ results[i][2]
           /\ results[i][3] = SENTINEL

C3_Witness ==
    \E i \in 1..Len(results) :
        /\ Affirmed(i)
        /\ runs[i].stdout # SENTINEL
        /\ runs[i].stderr # <<>>
        /\ results[i][2]

\* C4: a model whose reference artifact is missing gets a failure whose
\* message names the missing path, and subprocess.run is never called for it.
C4_MissingReference ==
    /\ \A i \in 1..Len(model_files) : ~RefExists(i) => invoked[i] = 0
    /\ \A i \in 1..Len(results) :
         ~RefExists(i)
         => /\ ~results[i][2]
            /\ runs[i].kind = "none"
            /\ Contains(results[i][3],
                        join(dirname(model_files[i]), mbal_filename))

C4_Witness ==
    \E i \in 1..Len(results) :
        /\ ~RefExists(i)
        /\ invoked[i] = 0
        /\ \E j \in 1..Len(results) : invoked[j] = 1

\* the diagnostic of a run with a non-zero exit status: the standard error
\* if it is not empty, the standard output otherwise
Diagnostic(i) ==
    IF runs[i].stderr # <<>> THEN runs[i].stderr ELSE runs[i].stdout

\* C5 as stated: after a non-zero exit status the outcome is a failure and
\* its message is the captured standard error if that is not empty, the
\* captured standard output otherwise.
C5_MessageIsDiagnostic ==
    \A i \in 1..Len(results) :
        (runs[i].kind = "exit" /\ runs[i].returncode # 0)
        => /\ ~results[i][2]
           /\ results[i][3] = Diagnostic(i)

\* C5 as amended: after a non-zero exit status the outcome is a failure,
\* also when the standard output holds the sentinel, and its message is
\* "Failed: " followed by the captured standard error if that is not empty,
\* by the captured standard output otherwise.
C5_FailedDiagnostic ==
    \A i \in 1..Len(results) :
        (runs[i].kind = "exit" /\ runs[i].returncode # 0)
        => /\ ~results[i][2]
           /\ results[i][3] = FailedPrefix \o Diagnostic(i)

C5_Witness ==
    /\ \E i \in 1..Len(results) :
         /\ runs[i].kind = "exit"
         /\ runs[i].returncode # 0
         /\ runs[i].stderr = <<>>
         /\ Contains(runs[i].stdout, SENTINEL)
         /\ ~results[i][2]
    /\ \E i \in 1..Len(results) :
         /\ runs[i].kind = "exit"
         /\ runs[i].returncode # 0
         /\ runs[i].stderr # <<>>
         /\ runs[i].stdout # <<>>

\* the word by which a message mentions the time limit
TimeLimitWord == <<"T", "i", "m", "e", "o", "u", "t">>

\* C6: an engine that does not return within the timeout gets a failure
\* whose message mentions the time limit, and its process has been killed
\* when verify_model returns: outside the wait inside subprocess.run no
\* child of a running harness is alive, so no two engines overlap.
C6_TimeoutKillsChild ==
    /\ \A i \in 1..Len(results) :
         runs[i].kind = "timeout"
         => /\ ~results[i][2]
            /\ Contains(results[i][3], TimeLimitWord)
    /\ (pc = "record" /\ runs[idx].kind = "timeout")
       => /\ child.state = "killed"
          /\ ~ret[1]
          /\ Contains(ret[2], TimeLimitWord)
    /\ pc \notin {"wait", "interrupted"} => child.state # "running"

C6_Witness ==
    /\ pc = "spawn"
    /\ idx = 2
    /\ runs[1].kind = "timeout"
    /\ child.state = "none"

\* C7: a fault raised while the engine is spawned or communicated with
\* becomes a failure whose message describes the fault; main goes on to
\* record it and is not ended by it.
C7_FaultIsCaught ==
    \A i \in 1..Len(runs) :
        runs[i].kind \in {"spawnfault", "commfault"}
        => IF i <= Len(results)
           THEN /\ ~results[i][2]
                /\ Contains(results[i][3], runs[i].fault)
           ELSE /\ pc \in {"record", "interrupted"}
                /\ exitStatus = -1
                /\ ~ret[1]
                /\ Contains(ret[2], runs[i].fault)

C7_Witness ==
    /\ Len(results) = 2
    /\ runs[1].kind = "spawnfault"
    /\ runs[2].kind = "commfault"
    /\ results[1][3] = ErrorPrefix \o ENOENT

\* the summary block has been printed
SummaryEmitted == \E k \in 1..Len(console) : console[k] = SummaryTitle

\* the line has been printed
HasLine(line) == \E k \in 1..Len(console) : console[k] = line

\* C8: once the summary is printed, results holds exactly one outcome for
\* each discovered model file (a model without reference artifact as a
\* failure), the printed Total is the number of files discovered and the
\* printed Passed and Failed add up to it.
C8_OneOutcomePerModel ==
    SummaryEmitted =>
        /\ Len(results) = Cardinality(Discovered)
        /\ \A p \in Discovered :
             Cardinality({i \in 1..Len(results) :
                            results[i][1] = relpath(p, root_dir)}) = 1
        /\ \A i \in 1..Len(results) : ~RefExists(i) => ~results[i][2]
        /\ passed = Cardinality({i \in 1..Len(results) : results[i][2]})
        /\ passed + failed = Cardinality(Discovered)
        /\ HasLine(TotalPrefix \o Str(Cardinality(Discovered)))
        /\ HasLine(PassedPrefix \o Str(passed))
        /\ HasLine(FailedCountPrefix \o Str(failed))

C8_Witness ==
    /\ SummaryEmitted
    /\ Cardinality(Discovered) = 3
    /\ \E i \in 1..Len(results) : ~RefExists(i)
    /\ \E i \in 1..Len(results) : results[i][2]

\* C9: in an uninterrupted run every discovered model is eventually handed
\* to verify_model and its outcome recorded, whatever the outcomes of the
\* models before it: once the model files are discovered, results comes to
\* hold the outcome of each of them.
C9_FailureIsLocal ==
    (model_files # <<>>)
    ~> (/\ Len(runs) = Len(model_files)
        /\ Len(results) = Len(model_files)
        /\ \A i \in 1..Len(model_files) :
             results[i][1] = relpath(model_files[i], root_dir))

C9_Witness ==
    /\ Len(results) = 3
    /\ ~results[1][2]
    /\ ~results[2][2]
    /\ runs[1].kind # runs[2].kind

\* the lines printed before the loop when no model file is found
NoModelLines == {SearchingPrefix \o root_dir, Rep("=", 80), NoIniMsg}

\* C10: with no model file in the tree the harness exits with status 1 right
\* after the discovery: no per-model line and no summary is printed and the
\* engine is never started.
C10_NoModels ==
    Discovered = {} =>
        /\ pc \in {"start", "discover", "done", "interrupted"}
        /\ \A k \in 1..Len(console) : console[k] \in NoModelLines
        /\ results = <<>>
        /\ runs = <<>>
        /\ child.state = "none"
        /\ \A i \in 1..Len(invoked) : invoked[i] = 0
        /\ pc = "done" => /\ exitStatus = 1
                          /\ console[Len(console)] = NoIniMsg

C10_Witness ==
    /\ Discovered = {}
    /\ files # {}
    /\ pc = "done"
    /\ exitStatus = 1

\* the run is past the removal of the log file: the headings are printed
\* in the same step
Started == console # <<>>

\* the final write is over: the log file holds the whole transcript
Persisted ==
    /\ SummaryEmitted
    /\ logFile = [exists |-> TRUE,
                  content |-> JoinLines(console) \o <<"\n">>]

\* C11 as stated: in the logging variant no log file exists from the removal
\* at the start of the run until the summary is printed, also when an
\* earlier run left one, and a run interrupted at any point before the final
\* write is over leaves no log file behind.
C11_DeleteFirstWriteLast ==
    variant = "logging" =>
        /\ (Started /\ ~SummaryEmitted) => ~logFile.exists
        /\ (Started /\ pc = "interrupted" /\ ~Persisted) => ~logFile.exists

\* C12: in the logging variant output_lines equals the console transcript
\* after every log() call; when a run has completed, the log file holds the
\* printed lines in order, joined by newlines, with one newline at the end;
\* the file is written in one step of the run, from the empty file that
\* open() made, and is not touched again afterwards.
C12_LogMirrorsConsole ==
    /\ [](variant = "logging" =>
            /\ output_lines = console
            /\ (pc \in {"exit", "done"} /\ SummaryEmitted)
               => /\ logFile.exists
                  /\ logFile.content = JoinLines(console) \o <<"\n">>)
    /\ [][/\ (logFile'.exists /\ logFile'.content # <<>>
              /\ logFile' # logFile)
             => /\ pc = "write_log"
                /\ pc' = "exit"
                /\ logFile = [exists |-> TRUE, content |-> <<>>]
          /\ pc \in {"exit", "done", "interrupted"} => logFile' = logFile]_vars

C12_Witness ==
    /\ variant = "logging"
    /\ pc = "done"
    /\ Len(results) = 2
    /\ logFile.exists
    /\ Len(logFile.content) > Len(console)
    /\ \E k \in 1..Len(console) : console[k] = <<>>

\* the indices of the failed outcomes, in the order of results
FailedIdx ==
    SelectSeq([i \in 1..Len(results) |-> i], LAMBDA i : ~results[i][2])

\* the item lines of the 'Failed models' list, in the order they are printed
Items == SelectSeq(console, LAMBDA l : StartsWith(l, ItemPrefix))

\* find_model_files has returned: its count line, or the line that says
\* there is no model file, follows the two heading lines
Searched == Len(console) > 2

\* C13: the discovered models are the matching files of the tree in
\* ascending lexicographic order of their paths, whatever the order of the
\* walk; the i-th entry of results is the outcome of the i-th of them; the
\* 'Failed models' list names the failed ones in that same order.
C13_DiscoveryOrder ==
    /\ Searched =>
         /\ {model_files[i] : i \in 1..Len(model_files)} = Discovered
         /\ \A i, j \in 1..Len(model_files) :
              i < j => LexLess(model_files[i], model_files[j])
    /\ Len(results) <= Len(model_files)
    /\ \A i \in 1..Len(results) :
         /\ ~StartsWith(results[i][1], <<"/">>)
         /\ join(root_dir, results[i][1]) = model_files[i]
         /\ results[i][2] <=> Affirmed(i)
    /\ \A i, j \in 1..Len(results) :
         i < j => LexLess(results[i][1], results[j][1])
    /\ SummaryEmitted =>
         Items = [k \in 1..Len(FailedIdx) |->
                    ItemPrefix \o results[FailedIdx[k]][1]]

C13_Witness ==
    /\ SummaryEmitted
    /\ Len(results) = 3
    /\ FailedIdx = <<1, 3>>
    /\ Len(Items) = 2

\* C14 as stated: in the logging variant, in every state of a run past the
\* removal of the old log file, the final write included and whether or not
\* the run is interrupted there, the log file either does not exist or holds
\* the complete transcript: an empty or partial log file is never there.
C14_AtomicPersist ==
    (variant = "logging" /\ Started /\ logFile.exists)
    => /\ SummaryEmitted
       /\ logFile.content # <<>>
       /\ logFile.content = JoinLines(console) \o <<"\n">>

\* the sum of a sequence of numbers
RECURSIVE Sum(_)
Sum(s) == IF s = <<>> THEN 0 ELSE s[1] + Sum(Tail(s))

\* the engines started and not yet over: the calls of subprocess.run less
\* the calls that have ended (by an exit, the timeout or a fault)
InFlight ==
    Sum(invoked) - Cardinality({i \in 1..Len(runs) : runs[i].kind # "none"})

\* C15: the engine is started at most once for each discovered model:
\* exactly once for a recorded model whose reference artifact exists, never
\* for one without, never a second time after a failure, a timeout or a
\* fault, and never before the loop has come to the model; at most one
\* engine is in flight at any time.
C15_InvokedOnce ==
    /\ Searched => Len(invoked) = Len(model_files)
    /\ \A i \in 1..Len(invoked) :
         /\ invoked[i] <= 1
         /\ i > idx => invoked[i] = 0
    /\ \A i \in 1..Len(results) :
         invoked[i] = IF RefExists(i) THEN 1 ELSE 0
    /\ InFlight \in {0, 1}
    /\ InFlight = 1 <=> child.state = "running"
    /\ pc \in {"loop", "spawn", "record"} => child.state # "running"

C15_Witness ==
    /\ pc = "wait"
    /\ idx = 2
    /\ runs[1].kind = "timeout"
    /\ ~results[1][2]
    /\ invoked = <<1, 1>>
    /\ InFlight = 1

\* C16: whatever the discovered models and whatever each engine does
\* (returns, hangs, cannot be started), an uninterrupted run comes to its
\* exit, with status 0 or 1.
C16_Terminates == <>(pc = "done" /\ exitStatus \in {0, 1})

C16_Witness ==
    /\ pc = "done"
    /\ exitStatus = 1
    /\ Len(runs) = 2
    /\ runs[1].kind = "timeout"
    /\ runs[2].kind = "spawnfault"

\* the five ways verify_model fails
FailureModes == {"missing", "timeout", "nonzero", "ambiguous", "fault"}

\* what the environment did to the i-th model, layer by layer: the reference
\* artifact first, then the timeout and the faults, then the exit status,
\* then the sentinel
Mode(i) ==
    IF ~RefExists(i) THEN "missing"
    ELSE IF runs[i].kind = "timeout" THEN "timeout"
    ELSE IF runs[i].kind \in {"spawnfault", "commfault"} THEN "fault"
    ELSE IF runs[i].kind = "exit" /\ runs[i].returncode # 0 THEN "nonzero"
    ELSE IF runs[i].kind = "exit" /\ ~Contains(runs[i].stdout, SENTINEL)
         THEN "ambiguous"
    ELSE "success"

\* the recorded models, each with its mode
Modes == {<<i, Mode(i)>> : i \in 1..Len(results)}

\* the text by which a message shows its failure mode
ModeMark(m) ==
    CASE m = "missing"   -> NotFoundPrefix
      [] m = "timeout"   -> TimeoutMsg
      [] m = "nonzero"   -> FailedPrefix
      [] m = "ambiguous" -> UnclearPrefix
      [] m = "fault"     -> ErrorPrefix

\* C17: every call of verify_model gives one outcome, a success exactly when
\* no layer fails; the message of a failure starts with the mark of its own
\* failure mode and with the mark of none of the other four, whatever the
\* engine wrote, so the messages of two different modes are never equal.
C17_DistinctMessages ==
    /\ Len(runs) \in {Len(results), Len(results) + 1}
    /\ \A p \in Modes :
         LET i == p[1]
             mode == p[2]
         IN  /\ results[i][2] <=> mode = "success"
             /\ mode \in FailureModes =>
                  \A m \in FailureModes :
                      StartsWith(results[i][3], ModeMark(m)) <=> m = mode
    /\ \A p, q \in Modes :
         p[2] # q[2] => results[p[1]][3] # results[q[1]][3]

C17_Witness ==
    /\ Len(results) = 2
    /\ Mode(1) = "nonzero"
    /\ runs[1].stderr = TimeoutMsg
    /\ Contains(runs[1].stdout, SENTINEL)
    /\ Mode(2) = "timeout"

\* the lines printed after the title of the 'Failed models' section
FailedSection ==
    LET t == CHOOSE k \in 1..Len(console) : console[k] = FailedModelsTitle
    IN  SubSeq(console, t + 1, Len(console))

\* C18: once the summary is printed, the 'Failed models' section is there
\* exactly when Failed > 0, that is when some outcome is a failure, and the
\* all-verified line exactly when it is not; the section holds, for each
\* failed outcome and for no other, its root-relative path followed by its
\* message; before the summary neither is printed.
C18_FailedSection ==
    IF SummaryEmitted
    THEN /\ failed = Len(FailedIdx)
         /\ HasLine(FailedModelsTitle) <=> failed > 0
         /\ HasLine(AllVerifiedMsg) <=> ~HasLine(FailedModelsTitle)
         /\ HasLine(FailedModelsTitle) =>
              FailedSection =
                 [k \in 1..(2 * Len(FailedIdx)) |->
                    IF k % 2 = 1
                    THEN ItemPrefix \o results[FailedIdx[(k + 1) \div 2]][1]
                    ELSE ItemMsgPrefix \o results[FailedIdx[k \div 2]][3]]
         /\ \A i \in 1..Len(results) :
              results[i][2] => ~HasLine(ItemPrefix \o results[i][1])
    ELSE /\ ~HasLine(FailedModelsTitle)
         /\ ~HasLine(AllVerifiedMsg)

C18_Witness ==
    /\ SummaryEmitted
    /\ Len(results) = 3
    /\ \E i \in 1..Len(results) : results[i][2]
    /\ Len(FailedSection) = 4

\* the summary block is printed down to its last part
SummaryComplete ==
    /\ SummaryEmitted
    /\ HasLine(FailedCountPrefix \o Str(failed))
    /\ HasLine(AllVerifiedMsg) \/ HasLine(FailedModelsTitle)

\* C19: in the logging variant a run over a tree without model files has
\* no log file from the removal at its start on: at its exit the line
\* 'No .ini files found!' is in output_lines and in no file; in any run, a
\* log file is there after the removal only if the run has printed the
\* complete summary.
C19_NoLogWithoutSummary ==
    variant = "logging" =>
        /\ (Started /\ Discovered = {}) => ~logFile.exists
        /\ (pc = "done" /\ Discovered = {})
           => /\ output_lines[Len(output_lines)] = NoIniMsg
              /\ exitStatus = 1
              /\ logFile = NoFile
        /\ (Started /\ logFile.exists) => SummaryComplete

C19_Witness ==
    /\ variant = "logging"
    /\ pc = "done"
    /\ Discovered = {}
    /\ Cardinality(files) = 2
    /\ output_lines[Len(output_lines)] = NoIniMsg
    /\ ~logFile.exists

\* the class of a message, read off the message alone
MessageClass(msg) ==
    IF msg = VerifiedMsg THEN "success"
    ELSE IF \E m \in FailureModes : StartsWith(msg, ModeMark(m))
         THEN CHOOSE m \in FailureModes : StartsWith(msg, ModeMark(m))
         ELSE "other"

\* the printed lines without the timestamp line
Untimed == SelectSeq(console, LAMBDA l : ~StartsWith(l, TimestampPrefix))

\* the number of lines a completed run over n models of which f failed
\* prints, the timestamp line apart: the two headings and the count, three
\* lines for each model, the six of the summary, and the failed section or
\* the all-verified line
LinesOfRun(n, f) == 3 + 3 * n + 6 + (IF f > 0 THEN 1 + 2 * f ELSE 1)

\* C20: the recorded outcomes (success flag and message class) and the exit
\* status are one function of the abstract environment (reference artifact
\* there or not, engine returned, timed out or faulted, exit status,
\* sentinel), the same for the base and the logging variant, and so is the
\* transcript but for the timestamp line; the variants differ in the engine
\* command and the reference file name, in the timestamp line, and in the
\* log file and its buffer, which the base variant never touches.
C20_VariantsAgree ==
    /\ \A p \in Modes :
         /\ results[p[1]][2] <=> p[2] = "success"
         /\ MessageClass(results[p[1]][3]) = p[2]
    /\ pc = "done" =>
         /\ exitStatus =
               IF /\ model_files # <<>>
                  /\ \A p \in Modes : p[2] = "success"
               THEN 0 ELSE 1
         /\ model_files # <<>> =>
              Len(Untimed) = LinesOfRun(Len(model_files), Len(FailedIdx))
    /\ Len(console) - Len(Untimed) =
          IF variant = "logging" /\ SummaryEmitted THEN 1 ELSE 0
    /\ variant = "base" => logFile = NoFile /\ output_lines = <<>>
    /\ child.state = "running" =>
         child.cmd = IF variant = "base"
                     THEN <<EngineBase, SubcmdBase,
                            basename(model_files[idx]), VerifyFlag, MbalBase>>
                     ELSE <<EngineLogging, SubcmdLogging,
                            basename(model_files[idx]), VerifyFlag,
                            MbalLogging>>

C20_Witness ==
    /\ pc = "done"
    /\ variant = "base"
    /\ Len(results) = 2
    /\ Mode(1) = "ambiguous"
    /\ Mode(2) = "success"
    /\ exitStatus = 1

====
